---- MODULE Spec2Model ----
(***************************************************************************)
(* Model of the two fragments of Kokoserver/iwaju-new:                     *)
(*   backend  src/lib/utils/cookie_response_token.py (compiled, cpython-39)*)
(*            create_response_cookies and update_response_cookies          *)
(*   frontend routes/(user)/dashboard/address/+page.server.ts  load        *)
(* The backend functions are read from the byte code of the .pyc file.     *)
(***************************************************************************)
EXTENDS Integers, Sequences, FiniteSets, TLC

VARIABLES
    config,     \* core.settings.config: debug flag and the two lifetimes
    now,        \* the wall clock datetime.datetime.now() reads
    requests,   \* the live fastapi Request objects, by request number
    calls,      \* what each call of the two functions took and returned
    tasks,      \* BackgroundTasks: every add_task submission, in order
    store,      \* the refresh-token store auth_token_repo.create writes
    failures,   \* the store's log of writes that failed
    fetched,    \* frontend: every call of get_addressList, in order
    loaded      \* frontend: what each load call took and returned

vars == <<config, now, requests, calls, tasks, store, failures, fetched, loaded>>
backendVars == <<config, now, requests, calls, tasks, store, failures>>
frontendVars == <<fetched, loaded>>

----------------------------------------------------------------------------
(* Bounds *)

MaxCalls == 2       \* calls of create_/update_response_cookies in a run
MaxLoads == 3       \* calls of the page loader in a run

----------------------------------------------------------------------------
(* Python values *)

\* Python's None, as a token value that is unset
None == "<None>"

\* bool(x) of a str-or-None value, as POP_JUMP_IF_FALSE tests it
Truthy(x) == x # None /\ x # ""

Digits == <<"0", "1", "2", "3", "4", "5", "6", "7", "8", "9">>

\* str(n) of a non-negative int
RECURSIVE str(_)
str(n) == IF n < 10 THEN Digits[n + 1]
          ELSE str(n \div 10) \o Digits[(n % 10) + 1]

\* dict.update(**kw): every keyword becomes a key of the mapping
dict_update(d, kw) ==
    [k \in DOMAIN d \cup DOMAIN kw |-> IF k \in DOMAIN kw THEN kw[k] ELSE d[k]]

EmptyDict == [k \in {} |-> ""]

\* json.dumps of a dict given as its items in order: the object's members
json_dumps(items) == [json |-> "object", members |-> items]

----------------------------------------------------------------------------
(* Collaborators that are not part of the two source files *)

\* src.app.user.model.User: an identity with a unique id
Users == {[id |-> 42], [id |-> 7]}

\* the Request objects in flight: a cookie mapping (Request.cookies is a
\* plain dict) and the rest of the request
RequestIds == {1, 2}
InitialRequests ==
    [r \in RequestIds |->
        [cookies |-> IF r = 1 THEN EmptyDict
                     ELSE [session |-> "s1", auth_access_token |-> "stale"],
         method  |-> "POST",
         body    |-> IF r = 1 THEN "login" ELSE "refresh"]]

\* core.settings.config lifetimes, in seconds
access_token_expire_time == 900
refresh_token_expire_time == 604800
\* config.get_access_expires_time() / get_refresh_expires_time(): timedeltas
get_access_expires_time(cfg) == cfg.access_token_expire_time
get_refresh_expires_time(cfg) == cfg.refresh_token_expire_time

Configs == [debug : BOOLEAN,
            access_token_expire_time : {access_token_expire_time},
            refresh_token_expire_time : {refresh_token_expire_time}]

\* schema.IToEncode(user_id=...).dict()
IToEncode_dict(user_id) == [user_id |-> user_id]

\* JWTAUTH.jwt_encoder(data=...): the (access_token, refresh_token) pairs the
\* signer can return for a payload: the signed pair, or a pair in which one
\* or both tokens are empty or unset
jwt_encoder(data) ==
    LET a == "access." \o data.user_id
        r == "refresh." \o data.user_id
    IN  {<<a, r>>, <<"", r>>, <<None, r>>, <<a, "">>, <<a, None>>}

\* schema.IToken(refresh_token=..., access_token=...).dict(), as its items
IToken_dict(refresh_token, access_token) == <<<<"access_token", access_token>>>>

\* auth_token_repo.create(user, request, refresh_token, access_token):
\* the RefreshTokenRecord it writes
RefreshTokenRecord(args) ==
    [user_id |-> args.user.id, refresh_token |-> args.refresh_token,
     request_context |-> args.request]

----------------------------------------------------------------------------
(* The state after start-up *)

Init ==
    /\ config \in Configs
    /\ now = 0
    /\ requests = InitialRequests
    /\ calls = <<>>
    /\ tasks = <<>>
    /\ store = <<>>
    /\ failures = <<>>
    /\ fetched = <<>>
    /\ loaded = <<>>

----------------------------------------------------------------------------
(* cookie_response_token.py *)

\* what a call returns when the guard fails: the constant False
False == [returned |-> "False"]

\* a guard that tests the access token alone
TokensGenerated_AccessOnly(access_token, refresh_token) == Truthy(access_token)

\* the guard of both functions: if access_token and refresh_token
TokensGenerated(access_token, refresh_token) ==
    Truthy(access_token) /\ Truthy(refresh_token)

\* a submission of auth_token_repo.create with the keyword arguments given
Submission(user, request, refresh_token, access_token) ==
    [func   |-> "auth_token_repo.create",
     kwargs |-> [user |-> user, request |-> request,
                 refresh_token |-> refresh_token,
                 access_token |-> access_token],
     state  |-> "pending"]

\* add_task with the two tokens passed under each other's keyword
add_task_SwappedTokens(background_task, user, request, refresh_token, access_token) ==
    Append(background_task, Submission(user, request, access_token, refresh_token))

\* add_task called a second time for the same write
add_task_Twice(background_task, user, request, refresh_token, access_token) ==
    Append(Append(background_task,
                  Submission(user, request, refresh_token, access_token)),
           Submission(user, request, refresh_token, access_token))

\* background_task.add_task(auth_token_repo.create, user=user, request=request,
\*                          refresh_token=refresh_token, access_token=access_token)
add_task(background_task, user, request, refresh_token, access_token) ==
    Append(background_task, Submission(user, request, refresh_token, access_token))

\* response.set_cookie(key=..., value=..., secure=True, httponly=config.debug,
\*                     samesite="lax", max_age=...): one Set-Cookie per key
set_cookie(response, key, value, max_age) ==
    [response EXCEPT !.cookies =
        dict_update(@, [k \in {key} |->
            [value    |-> value,
             secure   |-> TRUE,
             httponly |-> config.debug,
             samesite |-> "lax",
             max_age  |-> max_age]])]

\* Response(content=json.dumps(schema.IToken(...).dict()), status_code=200,
\*          media_type="application/json")
Response(refresh_token, access_token) ==
    [returned    |-> "Response",
     content     |-> json_dumps(IToken_dict(refresh_token, access_token)),
     status_code |-> 200,
     media_type  |-> "application/json",
     cookies     |-> EmptyDict]

\* a response whose two cookies carry each other's token
create_response_SwappedValues(refresh_token, access_token) ==
    set_cookie(
        set_cookie(Response(refresh_token, access_token),
                   "auth_access_token", refresh_token,
                   config.access_token_expire_time),
        "auth_refresh_token", access_token, config.refresh_token_expire_time)

\* the response create_response_cookies builds and returns
create_response(refresh_token, access_token) ==
    set_cookie(
        set_cookie(Response(refresh_token, access_token),
                   "auth_access_token", access_token,
                   config.access_token_expire_time),
        "auth_refresh_token", refresh_token, config.refresh_token_expire_time)

\* the entry of calls for one call
Call(op, user, request, signed, returned) ==
    [op |-> op, user |-> user, request |-> request,
     access_token |-> signed[1], refresh_token |-> signed[2],
     returned |-> returned]

\* create_response_cookies that never submits the store write
create_response_cookies_NoTask(user, request, signed) ==
    LET access_token == signed[1]
        refresh_token == signed[2]
    IN  IF TokensGenerated(access_token, refresh_token)
        THEN /\ calls' = Append(calls, Call("create", user, request, signed,
                                   create_response(refresh_token, access_token)))
             /\ UNCHANGED <<tasks, requests, store, failures>>
        ELSE /\ calls' = Append(calls, Call("create", user, request, signed, False))
             /\ UNCHANGED <<tasks, requests, store, failures>>

\* create_response_cookies that calls auth_token_repo.create itself and waits
\* for it, instead of handing it to add_task
create_response_cookies_SyncWrite(user, request, signed) ==
    LET access_token == signed[1]
        refresh_token == signed[2]
    IN  IF TokensGenerated(access_token, refresh_token)
        THEN /\ tasks' = Append(tasks,
                    [Submission(user, request, refresh_token, access_token)
                        EXCEPT !.state = "written"])
             /\ store' = Append(store, RefreshTokenRecord(
                    Submission(user, request, refresh_token, access_token).kwargs))
             /\ calls' = Append(calls, Call("create", user, request, signed,
                                   create_response(refresh_token, access_token)))
             /\ UNCHANGED <<requests, failures>>
        ELSE /\ calls' = Append(calls, Call("create", user, request, signed, False))
             /\ UNCHANGED <<tasks, requests, store, failures>>

\* create_response_cookies(user, background_task, request), with signed the
\* pair JWTAUTH.jwt_encoder returned to it
create_response_cookies(user, request, signed) ==
    LET access_token == signed[1]
        refresh_token == signed[2]
    IN  IF TokensGenerated(access_token, refresh_token)
        THEN /\ tasks' = add_task(tasks, user, request, refresh_token, access_token)
             /\ calls' = Append(calls, Call("create", user, request, signed,
                                   create_response(refresh_token, access_token)))
             /\ UNCHANGED <<requests, store, failures>>
        ELSE /\ calls' = Append(calls, Call("create", user, request, signed, False))
             /\ UNCHANGED <<tasks, requests, store, failures>>

\* the two request.cookies.update(key=..., value=..., ...) calls of
\* update_response_cookies, the second after the first
update_cookies(cookies, refresh_token, access_token) ==
    dict_update(
        dict_update(cookies,
            [key      |-> "auth_access_token",
             value    |-> access_token,
             secure   |-> TRUE,
             httponly |-> config.debug,
             samesite |-> "lax",
             max_age  |-> config.access_token_expire_time,
             expires  |-> now + get_access_expires_time(config)]),
        [key      |-> "auth_refresh_token",
         value    |-> refresh_token,
         secure   |-> TRUE,
         httponly |-> config.debug,
         samesite |-> "lax",
         expires  |-> now + get_refresh_expires_time(config),
         max_age  |-> config.refresh_token_expire_time])

\* the Request object as the caller sees it when it is returned
Returned(request, object) ==
    [returned |-> "Request", request |-> request,
     cookies |-> object.cookies, method |-> object.method, body |-> object.body]

\* update_response_cookies with add_task and the first cookies.update placed
\* before the guard
update_response_cookies_TaskBeforeGuard(user, request, signed) ==
    LET access_token == signed[1]
        refresh_token == signed[2]
        updated == [requests[request] EXCEPT
                        !.cookies = update_cookies(@, refresh_token, access_token)]
    IN  /\ tasks' = add_task(tasks, user, request, refresh_token, access_token)
        /\ requests' = [requests EXCEPT ![request] = updated]
        /\ UNCHANGED <<store, failures>>
        /\ IF TokensGenerated(access_token, refresh_token)
           THEN calls' = Append(calls, Call("update", user, request, signed,
                                            Returned(request, updated)))
           ELSE calls' = Append(calls, Call("update", user, request, signed, False))

\* update_response_cookies(user, background_task, request), with signed the
\* pair JWTAUTH.jwt_encoder returned to it
update_response_cookies(user, request, signed) ==
    LET access_token == signed[1]
        refresh_token == signed[2]
        updated == [requests[request] EXCEPT
                        !.cookies = update_cookies(@, refresh_token, access_token)]
    IN  IF TokensGenerated(access_token, refresh_token)
        THEN /\ tasks' = add_task(tasks, user, request, refresh_token, access_token)
             /\ requests' = [requests EXCEPT ![request] = updated]
             /\ calls' = Append(calls, Call("update", user, request, signed,
                                            Returned(request, updated)))
             /\ UNCHANGED <<store, failures>>
        ELSE /\ calls' = Append(calls, Call("update", user, request, signed, False))
             /\ UNCHANGED <<tasks, requests, store, failures>>

----------------------------------------------------------------------------
(* Actions of the backend *)

\* a route handler calls create_response_cookies
Issue ==
    /\ Len(calls) < MaxCalls
    /\ \E user \in Users, request \in RequestIds :
         \E signed \in jwt_encoder(IToEncode_dict(str(user.id))) :
            create_response_cookies(user, request, signed)
    /\ now' = now + 1
    /\ UNCHANGED <<config, frontendVars>>

\* a route handler calls update_response_cookies
Update ==
    /\ Len(calls) < MaxCalls
    /\ \E user \in Users, request \in RequestIds :
         \E signed \in jwt_encoder(IToEncode_dict(str(user.id))) :
            update_response_cookies(user, request, signed)
    /\ now' = now + 1
    /\ UNCHANGED <<config, frontendVars>>

\* the submitted tasks that may run next: BackgroundTasks runs the tasks of
\* one request in the order they were added
Runnable ==
    {i \in 1..Len(tasks) :
        /\ tasks[i].state = "pending"
        /\ \A j \in 1..(i - 1) :
              tasks[j].kwargs.request = tasks[i].kwargs.request
                  => tasks[j].state # "pending"}

\* a background task runs after its response was sent, and the store write
\* succeeds
PersistOk ==
    /\ \E i \in Runnable :
         /\ tasks' = [tasks EXCEPT ![i].state = "written"]
         /\ store' = Append(store, RefreshTokenRecord(tasks[i].kwargs))
    /\ UNCHANGED <<config, now, requests, calls, failures, frontendVars>>

\* a background task runs and the store write fails: the store logs it
PersistFail ==
    /\ \E i \in Runnable :
         /\ tasks' = [tasks EXCEPT ![i].state = "failed"]
         /\ failures' = Append(failures, RefreshTokenRecord(tasks[i].kwargs))
    /\ UNCHANGED <<config, now, requests, calls, store, frontendVars>>

Next == Issue \/ Update \/ PersistOk \/ PersistFail

Spec == Init /\ [][Next]_vars

----------------------------------------------------------------------------
(* +page.server.ts *)

\* the fetch capabilities SvelteKit hands to load, one per request event
Fetches == {"event1.fetch", "event2.fetch"}

\* get_addressList(fetch) of $root/lib/utils/page/address: what it can yield,
\* a promise still in flight, a promise already settled, or a plain value
get_addressList(fetch) ==
    {[kind |-> "promise", state |-> "pending", of |-> fetch],
     [kind |-> "promise", state |-> "fulfilled", of |-> fetch],
     [kind |-> "value", state |-> "none", of |-> fetch]}

\* await x: a promise becomes the value it settles to, a value stays
Await(x) == IF x.kind = "promise"
            THEN [kind |-> "value", state |-> "none", of |-> x.of]
            ELSE x

\* load that awaits the address list before returning it
load_Awaited(fetch, yielded) ==
    /\ fetched' = Append(fetched, [fetch |-> fetch, yielded |-> yielded])
    /\ loaded' = Append(loaded, [event |-> [fetch |-> fetch],
                                 data  |-> [addressList |-> Await(yielded)]])

\* load = async ({ fetch }) => { return { addressList: get_addressList(fetch) } }
\* with yielded the value the one call of get_addressList gave back
load(fetch, yielded) ==
    /\ fetched' = Append(fetched, [fetch |-> fetch, yielded |-> yielded])
    /\ loaded' = Append(loaded, [event |-> [fetch |-> fetch],
                                 data  |-> [addressList |-> yielded]])

\* SvelteKit runs the page loader for a request event
Load ==
    /\ Len(loaded) < MaxLoads
    /\ \E fetch \in Fetches :
         \E yielded \in get_addressList(fetch) : load(fetch, yielded)
    /\ UNCHANGED backendVars

NextLoad == Load

SpecLoad == Init /\ [][NextLoad]_vars

----------------------------------------------------------------------------
(* Properties *)

Succeeded(c) == c.returned.returned # "False"
SuccessfulCalls == SelectSeq(calls, Succeeded)
Pending(q) == {i \in 1..Len(q) : q[i].state = "pending"}
TokenCookies == {"auth_access_token", "auth_refresh_token"}

C2_EmptyTokenReturnsFalse ==
    \A i \in 1..Len(calls) :
        (calls[i].op = "create"
            /\ (~Truthy(calls[i].access_token) \/ ~Truthy(calls[i].refresh_token)))
        => calls[i].returned = False

C2_Witness ==
    /\ \E i \in 1..Len(calls) :
        /\ calls[i].op = "create"
        /\ calls[i].refresh_token = None
        /\ calls[i].returned = False
    /\ \E i \in 1..Len(calls) :
        /\ calls[i].op = "create"
        /\ calls[i].access_token = ""
        /\ calls[i].returned = False

\* C3: for every value of config.debug, every cookie create_response_cookies
\* sets and every cookie entry update_response_cookies writes has
\* HttpOnly = true, Secure = true and SameSite = lax, the access cookie's
\* max_age is the access lifetime, the refresh cookie's the refresh lifetime,
\* and the access lifetime is less than the refresh lifetime.
C3_CookieAttributesAlwaysSecure ==
    /\ config.access_token_expire_time < config.refresh_token_expire_time
    /\ \A i \in 1..Len(calls) :
        LET c == calls[i]
            jar == c.returned.cookies
        IN  /\ (c.op = "create" /\ Succeeded(c)) =>
                /\ \A k \in DOMAIN jar :
                     /\ jar[k].httponly = TRUE
                     /\ jar[k].secure = TRUE
                     /\ jar[k].samesite = "lax"
                /\ jar["auth_access_token"].max_age = config.access_token_expire_time
                /\ jar["auth_refresh_token"].max_age = config.refresh_token_expire_time
            /\ (c.op = "update" /\ Succeeded(c)) =>
                /\ jar["httponly"] = TRUE
                /\ jar["secure"] = TRUE
                /\ jar["samesite"] = "lax"

\* C4: a successful update_response_cookies returns the object it was given
\* with its non-cookie parts as they were and with the two cookies
\* auth_access_token and auth_refresh_token set to the tokens just generated.
C4_UpdateSetsTokenCookies ==
    \A i \in 1..Len(calls) :
        LET c == calls[i]
            obj == c.returned
        IN  (c.op = "update" /\ Succeeded(c)) =>
                /\ obj.body = InitialRequests[c.request].body
                /\ obj.method = InitialRequests[c.request].method
                /\ TokenCookies \subseteq DOMAIN obj.cookies
                /\ obj.cookies["auth_access_token"] = c.access_token
                /\ obj.cookies["auth_refresh_token"] = c.refresh_token

\* C5: the submissions of auth_token_repo.create are, in order, one per
\* successful call: each carries that call's user, its request and the refresh
\* and access token the call generated (the tokens a create response carries
\* in its cookies), and every submission stays its own write: none is merged
\* with or replaced by an earlier one with the same tokens.
C5_OneCreatePerSuccessfulCall ==
    /\ Len(tasks) = Len(SuccessfulCalls)
    /\ \A k \in 1..Len(tasks) :
        LET c == SuccessfulCalls[k]
        IN  /\ k <= Len(SuccessfulCalls)
            /\ tasks[k].func = "auth_token_repo.create"
            /\ tasks[k].kwargs = [user |-> c.user, request |-> c.request,
                                   refresh_token |-> c.refresh_token,
                                   access_token |-> c.access_token]
            /\ c.op = "create" =>
                /\ c.returned.cookies["auth_refresh_token"].value
                      = tasks[k].kwargs.refresh_token
                /\ c.returned.cookies["auth_access_token"].value
                      = tasks[k].kwargs.access_token
    /\ Len(store) + Len(failures) + Cardinality(Pending(tasks)) = Len(tasks)

C5_Witness ==
    /\ Len(SuccessfulCalls) = 2
    /\ SuccessfulCalls[1].op = "create"
    /\ SuccessfulCalls[2].op = "update"
    /\ SuccessfulCalls[1].refresh_token = SuccessfulCalls[2].refresh_token
    /\ Len(store) = 2
    /\ store[1] = store[2]

\* C6 as stated: whenever a call has returned a response (or request) that
\* carries the tokens, the store already holds the record of that token pair.
C6_RecordWrittenBeforeReturn ==
    \A i \in 1..Len(calls) :
        Succeeded(calls[i]) =>
            \E k \in 1..Len(store) :
                /\ store[k].refresh_token = calls[i].refresh_token
                /\ store[k].user_id = calls[i].user.id
                /\ store[k].request_context = calls[i].request

\* C6 amended: whenever a call has returned a response (or request) that
\* carries the tokens, the write of that token pair has already been submitted
\* to the background tasks; and the store holds no record whose write was not
\* submitted by a call that returned.
C6_WriteSubmittedBeforeReturn ==
    /\ \A i \in 1..Len(calls) :
        Succeeded(calls[i]) =>
            \E j \in 1..Len(tasks) :
                /\ tasks[j].kwargs.refresh_token = calls[i].refresh_token
                /\ tasks[j].kwargs.access_token = calls[i].access_token
                /\ tasks[j].kwargs.user = calls[i].user
                /\ tasks[j].kwargs.request = calls[i].request
    /\ \A k \in 1..Len(store) :
        \E i \in 1..Len(calls) :
            /\ Succeeded(calls[i])
            /\ store[k].refresh_token = calls[i].refresh_token

C6_Witness ==
    \E i \in 1..Len(calls) :
        /\ Succeeded(calls[i])
        /\ calls[i].op = "create"
        /\ TokenCookies \subseteq DOMAIN calls[i].returned.cookies
        /\ Len(store) = 0
        /\ Len(tasks) = 1
        /\ tasks[1].state = "pending"

\* C8: a step in which create_response_cookies or update_response_cookies
\* returns successfully writes nothing to the store and lets no write fail:
\* it only adds the write to the background tasks, where it is still pending
\* when the call has returned.
C8_ReturnDoesNotWaitForWrite ==
    [][(Len(calls') > Len(calls) /\ Succeeded(calls'[Len(calls')]))
        => /\ store' = store
           /\ failures' = failures
           /\ Len(tasks') = Len(tasks) + 1
           /\ tasks'[Len(tasks')].state = "pending"
           /\ tasks'[Len(tasks')].kwargs.refresh_token
                = calls'[Len(calls')].refresh_token]_vars

C8_Witness ==
    \E i \in 1..Len(calls) :
        /\ calls[i].op = "create"
        /\ calls[i].returned.returned = "Response"
        /\ TokenCookies \subseteq DOMAIN calls[i].returned.cookies
        /\ \A k \in 1..Len(store) :
             store[k].refresh_token # calls[i].refresh_token

\* C9: a step in which a deferred store write fails changes nothing the
\* caller was given (the returned responses and their cookies, the request
\* objects), writes nothing to the store, and leaves no new write behind:
\* the failed write is not pending again, and there is never more than one
\* write per successful call.
C9_FailedWriteNotSurfaced ==
    [][failures' # failures
        => /\ calls' = calls
           /\ requests' = requests
           /\ store' = store
           /\ Len(tasks') = Len(tasks)
           /\ Pending(tasks') \subseteq Pending(tasks)
           /\ Pending(tasks') # Pending(tasks)
           /\ Len(tasks') <= Len(SuccessfulCalls')]_vars

C9_Witness ==
    \E j \in 1..Len(tasks) :
        /\ tasks[j].state = "failed"
        /\ Len(failures) > 0
        /\ \E i \in 1..Len(calls) :
            /\ calls[i].op = "create"
            /\ calls[i].returned.returned = "Response"
            /\ calls[i].returned.cookies["auth_refresh_token"].value
                  = tasks[j].kwargs.refresh_token

\* C10: a step in which create_response_cookies or update_response_cookies
\* returns False submits no write and sets no cookie: the background tasks,
\* the store and every request's cookie mapping are as they were.
C10_GuardBeforeSideEffects ==
    [][(Len(calls') > Len(calls) /\ ~Succeeded(calls'[Len(calls')]))
        => /\ tasks' = tasks
           /\ requests' = requests
           /\ store' = store
           /\ failures' = failures]_vars

C10_Witness ==
    /\ \E i \in 1..Len(calls) :
        /\ calls[i].op = "update"
        /\ calls[i].returned = False
        /\ requests[calls[i].request] = InitialRequests[calls[i].request]
    /\ \E i \in 1..Len(calls) :
        /\ calls[i].op = "create"
        /\ calls[i].returned = False
    /\ Len(tasks) = 0

\* C7: every call of load made exactly one call of get_addressList, with the
\* fetch the loader was handed, and returned an object whose only key is
\* addressList and whose value is what that call yielded, a promise still in
\* flight included.
C7_LoadPassesThrough ==
    /\ Len(fetched) = Len(loaded)
    /\ \A i \in 1..Len(loaded) :
        /\ i <= Len(fetched)
        /\ fetched[i].fetch = loaded[i].event.fetch
        /\ DOMAIN loaded[i].data = {"addressList"}
        /\ loaded[i].data.addressList = fetched[i].yielded
        /\ loaded[i].data.addressList.of = loaded[i].event.fetch

C7_Witness ==
    \E i \in 1..Len(loaded) :
        /\ loaded[i].event.fetch = "event2.fetch"
        /\ loaded[i].data.addressList.kind = "promise"
        /\ loaded[i].data.addressList.state = "pending"

====
